---- MODULE Spec2Model ----
(***************************************************************************)
(* Model of data_processing/create_portfolio.py: the reconstruction of a   *)
(* politician's daily holdings and of the actual / copy-trade / benchmark  *)
(* cumulative returns (calculate_returns and everything it calls).         *)
(*                                                                         *)
(* Floating point values are modelled as extended rationals <<n, d>>:      *)
(*   d > 0, gcd(n, d) = 1   the finite value n/d                           *)
(*   <<1, 0>>, <<-1, 0>>    +inf and -inf                                  *)
(*   <<0, 0>>               NaN (pandas' null)                             *)
(* with IEEE-754 rules for the special values; rounding of finite values   *)
(* is not modelled (finite arithmetic is exact).                           *)
(***************************************************************************)
EXTENDS Integers, Sequences, FiniteSets

----------------------------------------------------------------------------
(* Bounds of the model *)

\* dates are 1..MaxDate (days handed out by the price provider or found in the CSV)
MaxDate == 5
\* at most this many transactions of the chosen politician
MaxTrades == 2
\* at most this many irregular entries in the provider's price table
MaxIrregular == 1

----------------------------------------------------------------------------
(* Float arithmetic *)

NaN == <<0, 0>>
Inf == <<1, 0>>
NInf == <<-1, 0>>
F(i) == <<i, 1>>

Abs(i) == IF i < 0 THEN -i ELSE i
Sgn(i) == IF i < 0 THEN -1 ELSE IF i > 0 THEN 1 ELSE 0

RECURSIVE GCD(_, _)
GCD(a, b) == IF b = 0 THEN a ELSE GCD(b, a % b)

\* the canonical form of n/d
Norm(n, d) ==
    IF d = 0 THEN <<Sgn(n), 0>>
    ELSE LET g == GCD(Abs(n), Abs(d))
         IN  <<(Sgn(d) * n) \div g, Abs(d) \div g>>

IsNaN(a) == a = NaN
IsFinite(a) == a[2] # 0

FAdd(a, b) ==
    IF ~IsFinite(a) /\ ~IsFinite(b) THEN (IF a = b THEN a ELSE NaN)
    ELSE IF ~IsFinite(a) THEN a
    ELSE IF ~IsFinite(b) THEN b
    ELSE Norm(a[1] * b[2] + b[1] * a[2], a[2] * b[2])

FMul(a, b) ==
    IF IsNaN(a) \/ IsNaN(b) THEN NaN
    ELSE Norm(a[1] * b[1], a[2] * b[2])

FRecip(a) ==
    IF IsNaN(a) THEN NaN
    ELSE IF ~IsFinite(a) THEN F(0)
    ELSE IF a[1] = 0 THEN Inf
    ELSE Norm(Sgn(a[1]) * a[2], Abs(a[1]))

FDiv(a, b) == FMul(a, FRecip(b))

\* a <= 0 and a > 0 as Python / numpy compare floats: every comparison with NaN is False
FLeZero(a) == ~IsNaN(a) /\ a[1] <= 0
FGtZero(a) == ~IsNaN(a) /\ a[1] > 0

\* Series.fillna(v)
FillNa(a, v) == IF IsNaN(a) THEN v ELSE a

\* Series.sum() / GroupBy.sum(): skipna=True, min_count=0 (an all-NaN sum is 0.0)
RECURSIVE SumSkipNa(_)
SumSkipNa(s) ==
    IF s = <<>> THEN F(0)
    ELSE IF IsNaN(s[1]) THEN SumSkipNa(Tail(s))
    ELSE FAdd(s[1], SumSkipNa(Tail(s)))

\* an arithmetic sum, in which a null stays null
RECURSIVE FSum(_)
FSum(s) == IF s = <<>> THEN F(0) ELSE FAdd(s[1], FSum(Tail(s)))

\* Series.cumprod(): skipna=True (a NaN entry stays NaN and is left out of the product)
RECURSIVE CumProdFrom(_, _)
CumProdFrom(acc, s) ==
    IF s = <<>> THEN <<>>
    ELSE IF IsNaN(s[1]) THEN <<NaN>> \o CumProdFrom(acc, Tail(s))
    ELSE <<FMul(acc, s[1])>> \o CumProdFrom(FMul(acc, s[1]), Tail(s))

CumProd(s) == CumProdFrom(F(1), s)

----------------------------------------------------------------------------
(* Generic sequence helpers *)

RECURSIVE Flatten(_)
Flatten(ss) == IF ss = <<>> THEN <<>> ELSE ss[1] \o Flatten(Tail(ss))

Range(s) == {s[i] : i \in DOMAIN s}

\* the elements of a finite set of integers in ascending order
RECURSIVE SortedSeq(_)
SortedSeq(S) ==
    IF S = {} THEN <<>>
    ELSE LET m == CHOOSE x \in S : \A y \in S : x <= y
         IN  <<m>> \o SortedSeq(S \ {m})

----------------------------------------------------------------------------
(* Inputs: the politician's cleaned transactions and the price provider *)

SPY == 0
Tickers == {1, 2}
Dates == 1..MaxDate
NoEnd == 0
\* signed dollar amounts after clean_transactions: purchases positive, the rest negative
Amounts == {-4, 2}

Trade == [Ticker : Tickers, Amount : Amounts, TransactionDate : Dates, ReportDate : Dates]

\* clean_transactions returns the rows sorted by TransactionDate
SortedByTransactionDate(s) ==
    \A i \in 1..(Len(s) - 1) : s[i].TransactionDate <= s[i + 1].TransactionDate

TradeSeqs ==
    {s \in UNION {[1..n -> Trade] : n \in 1..MaxTrades} : SortedByTransactionDate(s)}

\* The regular close of a ticker: alternates between 1 and 2
BaseClose(k, d) == F(1 + ((k + d) % 2))

\* the tickers whose observations may be irregular
ThinTickers == {1}

\* An irregular entry: a day without trading, a ticker without an observation on a
\* trading day, a close that the provider (rounding=True: two decimals) rounds to 0.00
Irregular ==
    {<<"holiday", SPY, d>> : d \in Dates}
    \cup {<<"missing", k, d>> : k \in ThinTickers, d \in Dates}
    \cup {<<"zero", k, d>> : k \in ThinTickers, d \in Dates}

ProviderClose(irr, k, d) ==
    IF <<"holiday", SPY, d>> \in irr \/ <<"missing", k, d>> \in irr THEN NaN
    ELSE IF <<"zero", k, d>> \in irr THEN F(0)
    ELSE BaseClose(k, d)

ProviderTables ==
    {[k \in Tickers \cup {SPY}, d \in Dates |-> ProviderClose(irr, k, d)] :
        irr \in {x \in SUBSET Irregular : Cardinality(x) <= MaxIrregular}}

----------------------------------------------------------------------------
(* State *)

VARIABLES
    trades,               \* choose_politician(clean_transactions(...)): the input rows
    provider,             \* what the price provider answers: close by (ticker, date)
    pc,                   \* the statement of calculate_returns about to run
    stock_data,           \* download_stock_data's result
    politician_trades,    \* add_stock_amount_column's result
    groupby_column,       \* the key of the current (or last) calculate_portfolio_roi call
    dates,                \* holdings: the trading calendar being walked
    idx,                  \* holdings: position of the loop in dates
    cumulative_holdings,  \* holdings: the accumulator, in insertion order
    holdings_list,        \* holdings: the rows emitted so far
    applied,              \* history: how often holdings has applied each transaction
    holdings_df,          \* history: the ledger holdings returned, by groupby_column
    roi_holdings,         \* calculate_portfolio_roi's result, by groupby_column
    final,                \* create_portfolio_roi's result
    combined_requests,    \* provider requests for the whole ticker list
    benchmark_requests    \* provider requests for "SPY" alone

vars == <<trades, provider, pc, stock_data, politician_trades,
          groupby_column, dates, idx, cumulative_holdings, holdings_list, applied,
          holdings_df, roi_holdings, final, combined_requests, benchmark_requests>>

GroupbyColumns == {"TransactionDate", "ReportDate"}

\* calculate_returns: cutoff_date = politician_trades.iloc[0]["TransactionDate"]
cutoff_date == trades[1].TransactionDate

\* calculate_returns passes no end_date to create_portfolio_roi: it is None
end_date == NoEnd

----------------------------------------------------------------------------
(* The price provider (yfinance) *)

\* the dates of a request's answer: start inclusive, end exclusive, None open
InRequest(d, start, end) == d >= start /\ (end = NoEnd \/ d < end)

\* yf.download("SPY", start, end).index: the days on which the benchmark traded
TradingCalendar(start, end) ==
    SortedSeq({d \in Dates : InRequest(d, start, end) /\ ~IsNaN(provider[SPY, d])})

----------------------------------------------------------------------------
(* download_stock_data *)

\* the dates, ascending, of ticker k's rows after dropna(subset=['Close'])
ObservedDates(k, start, end) ==
    SortedSeq({d \in Dates : InRequest(d, start, end) /\ ~IsNaN(provider[k, d])})

\* groupby('Ticker')['Close'].pct_change().fillna(0) + 1.0 for the i-th row of a ticker
DailyROIAt(k, ds, i) ==
    IF i = 1 THEN FAdd(FillNa(NaN, F(0)), F(1))
    ELSE LET pct == FAdd(FDiv(provider[k, ds[i]], provider[k, ds[i - 1]]), F(-1))
         IN  FAdd(FillNa(pct, F(0)), F(1))

TickerRows(k, start, end) ==
    LET ds == ObservedDates(k, start, end)
    IN  [i \in 1..Len(ds) |->
            [Date |-> ds[i], Ticker |-> k, Close |-> provider[k, ds[i]],
             DailyROI |-> DailyROIAt(k, ds, i)]]

\* the long table, sorted by (Ticker, Date)
StockData(ts, start, end) ==
    LET ks == SortedSeq({ts[i].Ticker : i \in DOMAIN ts} \cup {SPY})
    IN  Flatten([i \in 1..Len(ks) |-> TickerRows(ks[i], start, end)])

\* (mutant) one request per ticker
DownloadStockDataPerTicker ==
    /\ pc = "download_stock_data"
    /\ stock_data' = StockData(trades, cutoff_date, NoEnd)
    /\ combined_requests' =
          combined_requests + Cardinality({trades[i].Ticker : i \in DOMAIN trades} \cup {SPY})
    /\ pc' = "add_stock_amount_column"
    /\ UNCHANGED <<trades, provider, politician_trades, groupby_column, dates,
                   idx, cumulative_holdings, holdings_list, applied, holdings_df,
                   roi_holdings, final, benchmark_requests>>

DownloadStockData ==
    /\ pc = "download_stock_data"
    /\ stock_data' = StockData(trades, cutoff_date, NoEnd)
    /\ combined_requests' = combined_requests + 1
    /\ pc' = "add_stock_amount_column"
    /\ UNCHANGED <<trades, provider, politician_trades, groupby_column, dates,
                   idx, cumulative_holdings, holdings_list, applied, holdings_df,
                   roi_holdings, final, benchmark_requests>>

----------------------------------------------------------------------------
(* add_stock_amount_column *)

\* one row of merge(how='left') on (TransactionDate, Ticker) = (Date, Ticker)
ValuedRow(t, p) ==
    [Ticker |-> t.Ticker, Amount |-> t.Amount, TransactionDate |-> t.TransactionDate,
     ReportDate |-> t.ReportDate, Close |-> p,
     StockAmount |-> FDiv(F(t.Amount), p)]

\* the rows the left merge makes of one transaction: one per matching price row,
\* and one with a null price when none matches
ValuedRows(t, sd) ==
    LET m == SelectSeq(sd, LAMBDA r : r.Date = t.TransactionDate /\ r.Ticker = t.Ticker)
    IN  IF m = <<>> THEN <<ValuedRow(t, NaN)>>
        ELSE [i \in 1..Len(m) |-> ValuedRow(t, m[i].Close)]

AddStockAmount(ts, sd) == Flatten([i \in 1..Len(ts) |-> ValuedRows(ts[i], sd)])

AddStockAmountColumn ==
    /\ pc = "add_stock_amount_column"
    /\ politician_trades' = AddStockAmount(trades, stock_data)
    /\ pc' = "holdings"
    /\ UNCHANGED <<trades, provider, stock_data, groupby_column, dates, idx,
                   cumulative_holdings, holdings_list, applied, holdings_df,
                   roi_holdings, final, combined_requests, benchmark_requests>>

----------------------------------------------------------------------------
(* holdings *)

\* (mutant) the key is the execution date whatever the column asked for
KeyDateIgnoringColumn(r, col) == r.TransactionDate

KeyDate(r, col) == IF col = "TransactionDate" THEN r.TransactionDate ELSE r.ReportDate

\* (mutant) the group of a date holds every row keyed on or before it
GroupIndexesUpTo(tr, col, date) == {i \in DOMAIN tr : KeyDate(tr[i], col) <= date}

\* trades_grouped.groups[date]: the positions of the rows keyed on date
GroupIndexes(tr, col, date) == {i \in DOMAIN tr : KeyDate(tr[i], col) = date}

\* trades_grouped.get_group(date)
DayTransactions(tr, col, date) ==
    LET ix == SortedSeq(GroupIndexes(tr, col, date))
    IN  [j \in 1..Len(ix) |-> tr[ix[j]]]

\* (mutant) the sum does not skip nulls
DaySumKeepingNa(day, k) ==
    LET rows == SelectSeq(day, LAMBDA r : r.Ticker = k)
    IN  FSum([j \in 1..Len(rows) |-> rows[j].StockAmount])

\* day_transactions.groupby('Ticker')['StockAmount'].sum() for one ticker
DaySum(day, k) ==
    LET rows == SelectSeq(day, LAMBDA r : r.Ticker = k)
    IN  SumSkipNa([j \in 1..Len(rows) |-> rows[j].StockAmount])

\* the keys of that sum, in the order .items() yields them (groupby sorts its keys)
DayTickers(day) == SortedSeq({day[j].Ticker : j \in DOMAIN day})

\* cumulative_holdings is a defaultdict(int): a sequence of entries in insertion order
DictHas(dict, k) == \E j \in DOMAIN dict : dict[j].Ticker = k

DictGet(dict, k) ==
    IF DictHas(dict, k)
    THEN (CHOOSE e \in Range(dict) : e.Ticker = k).StockAmount
    ELSE F(0)

DictSet(dict, k, v) ==
    IF DictHas(dict, k)
    THEN [j \in DOMAIN dict |->
            IF dict[j].Ticker = k THEN [Ticker |-> k, StockAmount |-> v] ELSE dict[j]]
    ELSE Append(dict, [Ticker |-> k, StockAmount |-> v])

DictDel(dict, k) == SelectSeq(dict, LAMBDA e : e.Ticker # k)

\* (mutant) the eviction test is < 0
UpdateTickerStrict(dict, k, s) ==
    LET v == FAdd(DictGet(dict, k), s)
        d == DictSet(dict, k, v)
    IN  IF ~IsNaN(v) /\ v[1] < 0 THEN DictDel(d, k) ELSE d

\* (mutant) nothing is evicted
UpdateTickerNoEvict(dict, k, s) == DictSet(dict, k, FAdd(DictGet(dict, k), s))

\* cumulative_holdings[ticker] += stock_amount; if ... <= 0: del cumulative_holdings[ticker]
UpdateTicker(dict, k, s) ==
    LET v == FAdd(DictGet(dict, k), s)
        d == DictSet(dict, k, v)
    IN  IF FLeZero(v) THEN DictDel(d, k) ELSE d

RECURSIVE UpdateTickers(_, _, _)
UpdateTickers(dict, ks, day) ==
    IF ks = <<>> THEN dict
    ELSE UpdateTickers(UpdateTicker(dict, ks[1], DaySum(day, ks[1])), Tail(ks), day)

\* (mutant) the accumulator is created inside the loop
UpdateHoldingsFromEmpty(dict, tr, col, date) ==
    IF GroupIndexes(tr, col, date) # {}
    THEN LET day == DayTransactions(tr, col, date)
         IN  UpdateTickers(<<>>, DayTickers(day), day)
    ELSE <<>>

\* the body of "for date in dates" up to the append loop
UpdateHoldings(dict, tr, col, date) ==
    IF GroupIndexes(tr, col, date) # {}
    THEN LET day == DayTransactions(tr, col, date)
         IN  UpdateTickers(dict, DayTickers(day), day)
    ELSE dict

\* the rows appended for one date
Snapshot(dict, date) ==
    [j \in DOMAIN dict |->
        [Date |-> date, Ticker |-> dict[j].Ticker, StockAmount |-> dict[j].StockAmount]]

\* holdings as a function: the ledger of a whole walk over ds, starting from dict
RECURSIVE HoldingsFrom(_, _, _, _)
HoldingsFrom(dict, tr, col, ds) ==
    IF ds = <<>> THEN <<>>
    ELSE LET d == UpdateHoldings(dict, tr, col, ds[1])
         IN  Snapshot(d, ds[1]) \o HoldingsFrom(d, tr, col, Tail(ds))

Holdings(tr, col, ds) == HoldingsFrom(<<>>, tr, col, ds)

\* create_portfolio_roi: the first calculate_portfolio_roi call keys on TransactionDate,
\* the second on ReportDate
NextGroupbyColumn ==
    IF "TransactionDate" \in DOMAIN holdings_df THEN "ReportDate" ELSE "TransactionDate"

\* calculate_portfolio_roi calls holdings without end_date: the calendar is open-ended
HoldingsStart ==
    /\ pc = "holdings"
    /\ groupby_column' = NextGroupbyColumn
    /\ dates' = TradingCalendar(cutoff_date, NoEnd)
    /\ benchmark_requests' = benchmark_requests + 1
    /\ cumulative_holdings' = <<>>
    /\ holdings_list' = <<>>
    /\ idx' = 1
    /\ pc' = "holdings_loop"
    /\ UNCHANGED <<trades, provider, stock_data, politician_trades,
                   applied, holdings_df, roi_holdings, final, combined_requests>>

HoldingsDay ==
    /\ pc = "holdings_loop"
    /\ idx <= Len(dates)
    /\ cumulative_holdings' =
          UpdateHoldings(cumulative_holdings, politician_trades, groupby_column, dates[idx])
    /\ holdings_list' = holdings_list \o Snapshot(cumulative_holdings', dates[idx])
    /\ applied' = [applied EXCEPT ![groupby_column] =
          [i \in DOMAIN politician_trades |->
              IF i \in GroupIndexes(politician_trades, groupby_column, dates[idx])
              THEN @[i] + 1 ELSE @[i]]]
    /\ idx' = idx + 1
    /\ UNCHANGED <<trades, provider, pc, stock_data, politician_trades,
                   groupby_column, dates, holdings_df, roi_holdings, final,
                   combined_requests, benchmark_requests>>

----------------------------------------------------------------------------
(* calculate_portfolio_roi *)

\* holding.merge(stock_data, on (Date, Ticker)): an inner join, then StockValue
MergedRows(h, sd) ==
    LET m == SelectSeq(sd, LAMBDA r : r.Date = h.Date /\ r.Ticker = h.Ticker)
    IN  [j \in 1..Len(m) |->
            [Date |-> h.Date, Ticker |-> h.Ticker, StockAmount |-> h.StockAmount,
             Close |-> m[j].Close, DailyROI |-> m[j].DailyROI,
             StockValue |-> FMul(h.StockAmount, m[j].Close)]]

\* holding.groupby('Date')['StockValue'].transform('sum') for the rows of one date
TotalValue(rows, date) ==
    LET day == SelectSeq(rows, LAMBDA r : r.Date = date)
    IN  SumSkipNa([j \in 1..Len(day) |-> day[j].StockValue])

PortfolioRoi(hl, sd) ==
    LET rows == Flatten([i \in 1..Len(hl) |-> MergedRows(hl[i], sd)])
    IN  [i \in 1..Len(rows) |->
            [Date |-> rows[i].Date, Ticker |-> rows[i].Ticker,
             StockValue |-> rows[i].StockValue,
             TotalValue |-> TotalValue(rows, rows[i].Date),
             ROI |-> FMul(FDiv(rows[i].StockValue, TotalValue(rows, rows[i].Date)),
                          rows[i].DailyROI)]]

NextAfterRoi == IF groupby_column = "TransactionDate" THEN "holdings" ELSE "create_portfolio_roi"

\* holdings returned a ledger with rows: the merge and the ROI columns
CalculatePortfolioRoi ==
    /\ pc = "holdings_loop"
    /\ idx > Len(dates)
    /\ holdings_list # <<>>
    /\ holdings_df' = [c \in DOMAIN holdings_df \cup {groupby_column} |->
                          IF c = groupby_column THEN holdings_list ELSE holdings_df[c]]
    /\ roi_holdings' = [c \in DOMAIN roi_holdings \cup {groupby_column} |->
                          IF c = groupby_column THEN PortfolioRoi(holdings_list, stock_data)
                          ELSE roi_holdings[c]]
    /\ pc' = NextAfterRoi
    /\ UNCHANGED <<trades, provider, stock_data, politician_trades, groupby_column, dates, idx,
                   cumulative_holdings, holdings_list, applied, final,
                   combined_requests, benchmark_requests>>

\* holdings returned pd.DataFrame([]), which has no columns: merge raises KeyError('Date')
MergeKeyError ==
    /\ pc = "holdings_loop"
    /\ idx > Len(dates)
    /\ holdings_list = <<>>
    /\ holdings_df' = [c \in DOMAIN holdings_df \cup {groupby_column} |->
                          IF c = groupby_column THEN holdings_list ELSE holdings_df[c]]
    /\ pc' = "raised"
    /\ UNCHANGED <<trades, provider, stock_data, politician_trades,
                   groupby_column, dates, idx, cumulative_holdings, holdings_list, applied,
                   roi_holdings, final, combined_requests, benchmark_requests>>

----------------------------------------------------------------------------
(* create_portfolio_roi *)

\* spy_data["Close"].pct_change().fillna(0) + 1.0
SpyDailyROI(ds) ==
    [i \in 1..Len(ds) |->
        IF i = 1 THEN FAdd(FillNa(NaN, F(0)), F(1))
        ELSE FAdd(FillNa(FAdd(FDiv(provider[SPY, ds[i]], provider[SPY, ds[i - 1]]), F(-1)),
                         F(0)), F(1))]

\* (mutant) the rows are merged without grouping them by date
GroupSumByDateUngrouped(rows) ==
    [i \in DOMAIN rows |-> [Date |-> rows[i].Date, ROI |-> rows[i].ROI]]

\* rows.groupby('Date')['ROI'].sum().reset_index()
GroupSumByDate(rows) ==
    LET ds == SortedSeq({rows[i].Date : i \in DOMAIN rows})
    IN  [j \in 1..Len(ds) |->
            LET day == SelectSeq(rows, LAMBDA r : r.Date = ds[j])
            IN  [Date |-> ds[j], ROI |-> SumSkipNa([i \in 1..Len(day) |-> day[i].ROI])]]

\* the ROI values final.merge(right, on="Date", how="left") attaches to one left row
LeftMatches(date, right) ==
    LET m == SelectSeq(right, LAMBDA r : r.Date = date)
    IN  IF m = <<>> THEN <<NaN>> ELSE [j \in 1..Len(m) |-> m[j].ROI]

\* the two left merges onto the benchmark rows
MergeFinal(ds, politician, copytraded) ==
    LET spy == CumProd(SpyDailyROI(ds))
        first == Flatten([i \in 1..Len(ds) |->
                    LET m == LeftMatches(ds[i], politician)
                    IN  [j \in 1..Len(m) |->
                            [Date |-> ds[i], SPYCumROI |-> spy[i], ROI |-> m[j]]]])
    IN  Flatten([i \in 1..Len(first) |->
            LET m == LeftMatches(first[i].Date, copytraded)
            IN  [j \in 1..Len(m) |->
                    [Date |-> first[i].Date, SPYCumROI |-> first[i].SPYCumROI,
                     ROI |-> first[i].ROI, CopyTradeROI |-> m[j]]]])

\* fillna(1.0) and cumprod() of both return columns
FinalTable(ds, politician, copytraded) ==
    LET m == MergeFinal(ds, politician, copytraded)
        roi == [i \in 1..Len(m) |-> FillNa(m[i].ROI, F(1))]
        copy == [i \in 1..Len(m) |-> FillNa(m[i].CopyTradeROI, F(1))]
        cum == CumProd(roi)
        copycum == CumProd(copy)
    IN  [i \in 1..Len(m) |->
            [Date |-> m[i].Date, SPYCumROI |-> m[i].SPYCumROI,
             ROI |-> roi[i], CumulativeROI |-> cum[i],
             CopyTradeROI |-> copy[i], CopyCumulativeROI |-> copycum[i]]]

CreatePortfolioRoi ==
    /\ pc = "create_portfolio_roi"
    /\ benchmark_requests' = benchmark_requests + 1
    /\ final' = FinalTable(TradingCalendar(cutoff_date, end_date),
                           GroupSumByDate(roi_holdings["TransactionDate"]),
                           GroupSumByDate(roi_holdings["ReportDate"]))
    /\ pc' = "done"
    /\ UNCHANGED <<trades, provider, stock_data, politician_trades,
                   groupby_column, dates, idx, cumulative_holdings, holdings_list, applied,
                   holdings_df, roi_holdings, combined_requests>>

----------------------------------------------------------------------------
(* calculate_returns *)

Init ==
    /\ trades \in TradeSeqs
    /\ provider \in ProviderTables
    /\ pc = "download_stock_data"
    /\ stock_data = <<>>
    /\ politician_trades = <<>>
    /\ groupby_column = "TransactionDate"
    /\ dates = <<>>
    /\ idx = 1
    /\ cumulative_holdings = <<>>
    /\ holdings_list = <<>>
    /\ applied = [c \in GroupbyColumns |-> [i \in DOMAIN trades |-> 0]]
    /\ holdings_df = <<>>
    /\ roi_holdings = <<>>
    /\ final = <<>>
    /\ combined_requests = 0
    /\ benchmark_requests = 0

Next ==
    \/ DownloadStockData
    \/ AddStockAmountColumn
    \/ HoldingsStart
    \/ HoldingsDay
    \/ CalculatePortfolioRoi
    \/ MergeKeyError
    \/ CreatePortfolioRoi

Spec == Init /\ [][Next]_vars

----------------------------------------------------------------------------
(* Vocabulary of the properties *)

\* the calendar dates holdings has processed in the current (or last) walk
Processed == [j \in 1..(idx - 1) |-> dates[j]]

Held(ledger, d, k) == \E i \in DOMAIN ledger : ledger[i].Date = d /\ ledger[i].Ticker = k

QtyAt(ledger, d, k) ==
    IF Held(ledger, d, k)
    THEN (CHOOSE r \in Range(ledger) : r.Date = d /\ r.Ticker = k).StockAmount
    ELSE F(0)

RowsAt(ledger, d) ==
    {<<ledger[i].Ticker, ledger[i].StockAmount>> : i \in {j \in DOMAIN ledger : ledger[j].Date = d}}

\* the summed quantity of ticker k's transactions keyed on date d, and whether there are any
KeyedOn(d, k) ==
    {i \in GroupIndexes(politician_trades, groupby_column, d) : politician_trades[i].Ticker = k}

SumOn(d, k) == DaySum(DayTransactions(politician_trades, groupby_column, d), k)

FLess(a, b) == IsFinite(a) /\ IsFinite(b) /\ a[1] * b[2] < b[1] * a[2]

\* the valued transactions without the i-th
RemoveAt(tr, i) == [j \in 1..(Len(tr) - 1) |-> IF j < i THEN tr[j] ELSE tr[j + 1]]

----------------------------------------------------------------------------
(* C1: non-negativity of the ledger *)

\* C1: every row holdings emits has a quantity strictly greater than 0; a ticker whose
\* running quantity is zero, negative or undefined (NaN) never appears in the ledger.
C1_NonNegativity ==
    \A i \in DOMAIN holdings_list : FGtZero(holdings_list[i].StockAmount)

----------------------------------------------------------------------------
(* C2: conservation *)

\* ticker k's transactions keyed on dates up to and including D
KeyedUpTo(D, k) ==
    SelectSeq(politician_trades,
              LAMBDA r : r.Ticker = k /\ KeyDate(r, groupby_column) <= D)

\* a positive-quantity transaction in k keyed after D and no later than d
PositiveBetween(D, d, k) ==
    \E i \in DOMAIN politician_trades :
        /\ politician_trades[i].Ticker = k
        /\ FGtZero(politician_trades[i].StockAmount)
        /\ KeyDate(politician_trades[i], groupby_column) > D
        /\ KeyDate(politician_trades[i], groupby_column) <= d

\* C2 as claimed: if the quantities of all of a ticker's transactions keyed on dates up
\* to and including D sum to exactly zero, the ledger has no row for the ticker on any
\* calendar date >= D until a later positive-quantity transaction in it is applied.
C2_ConservationAsClaimed ==
    \A k \in Tickers : \A D \in Dates :
        LET upto == KeyedUpTo(D, k)
        IN  (upto # <<>> /\ FSum([i \in 1..Len(upto) |-> upto[i].StockAmount]) = F(0))
            => \A j \in DOMAIN Processed :
                   (Processed[j] >= D /\ ~PositiveBetween(D, Processed[j], k))
                   => ~Held(holdings_list, Processed[j], k)

\* the quantity the ledger shows for k on the calendar date before position j
QtyBefore(j, k) == IF j = 1 THEN F(0) ELSE QtyAt(holdings_list, Processed[j - 1], k)

\* the running quantity of k becomes exactly zero on the calendar date at position j
ReachesZeroAt(j, k) ==
    /\ KeyedOn(Processed[j], k) # {}
    /\ FAdd(QtyBefore(j, k), SumOn(Processed[j], k)) = F(0)

\* a calendar date at a position in a+1..b applies a summed quantity of k that is not <= 0
ReinstatedBetween(a, b, k) ==
    \E m \in (a + 1)..b :
        KeyedOn(Processed[m], k) # {} /\ ~FLeZero(SumOn(Processed[m], k))

\* C2 amended: when the running quantity of a ticker (what the ledger shows for it on
\* the previous calendar date, zero if nothing) plus the summed quantity of its
\* transactions keyed on calendar date D is exactly zero, the ledger has no row for the
\* ticker on D or on any later calendar date, until a calendar date that applies a
\* summed quantity for it that is positive (or undefined).
C2_ConservationOfRunningQuantity ==
    \A k \in Tickers : \A j \in DOMAIN Processed :
        ReachesZeroAt(j, k)
        => \A m \in j..Len(Processed) :
               ~ReinstatedBetween(j, m, k) => ~Held(holdings_list, Processed[m], k)

\* C2 witness: a held ticker is sold down to exactly zero and a later date is processed
C2_Witness ==
    \E k \in Tickers : \E j \in DOMAIN Processed :
        /\ j >= 2
        /\ FGtZero(QtyBefore(j, k))
        /\ ReachesZeroAt(j, k)
        /\ Len(Processed) > j
        /\ ~ReinstatedBetween(j, Len(Processed), k)

----------------------------------------------------------------------------
(* C3: a transaction without a price *)

\* the i-th transaction found no price observation on (TransactionDate, Ticker)
Unpriced(i) ==
    ~\E r \in Range(stock_data) :
        r.Date = trades[i].TransactionDate /\ r.Ticker = trades[i].Ticker

Valued == pc \notin {"download_stock_data", "add_stock_amount_column"}

----------------------------------------------------------------------------
(* C4: calendar completeness of the final table *)

\* C4: the table create_portfolio_roi returns has exactly one row per trading day of
\* the benchmark calendar over the requested range, in calendar order: every calendar
\* day appears and none twice, whatever rows the two ledgers hold for the day.
C4_CalendarCompleteness ==
    pc = "done" =>
        [i \in DOMAIN final |-> final[i].Date] = TradingCalendar(cutoff_date, end_date)

\* C4 witness: a table was returned although one ledger holds two rows for a date and
\* the other ledger none for some calendar date
C4_Witness ==
    /\ pc = "done"
    /\ \E d \in Dates : Cardinality(RowsAt(holdings_df["TransactionDate"], d)) = 2
    /\ \E d \in Range(TradingCalendar(cutoff_date, end_date)) :
          RowsAt(holdings_df["ReportDate"], d) = {}

----------------------------------------------------------------------------
(* C5: execution-keyed against disclosure-keyed ledgers *)

\* a single purchase executed on trading day 1 and disclosed on trading day 5
SinglePurchaseDay1Day5 ==
    /\ Len(trades) = 1
    /\ trades[1].Amount > 0
    /\ trades[1].TransactionDate = 1
    /\ trades[1].ReportDate = 5
    /\ \A d \in 1..5 : ~IsNaN(provider[SPY, d])

\* the execution-keyed ledger holds the ticker on days 1-4
ExecutionHoldsDays1To4 ==
    \A d \in 1..4 : Held(holdings_df["TransactionDate"], d, trades[1].Ticker)

\* the disclosure-keyed ledger does not, and from day 5 on both ledgers have the same rows
DisclosureConverges ==
    /\ \A d \in 1..4 : ~Held(holdings_df["ReportDate"], d, trades[1].Ticker)
    /\ \A d \in Range(TradingCalendar(cutoff_date, NoEnd)) :
          d >= 5 => RowsAt(holdings_df["TransactionDate"], d)
                       = RowsAt(holdings_df["ReportDate"], d)

\* C5 as claimed: for a single purchase executed on trading day 1 and disclosed on
\* trading day 5, the TransactionDate ledger holds the ticker on days 1-4, the
\* ReportDate ledger does not, and from day 5 on both have the same rows on every date.
C5_DivergeThenConvergeAsClaimed ==
    SinglePurchaseDay1Day5 =>
        /\ "TransactionDate" \in DOMAIN holdings_df => ExecutionHoldsDays1To4
        /\ "ReportDate" \in DOMAIN holdings_df => DisclosureConverges

\* C5 amended: the same, for a purchase whose execution date has a price observation
\* for its ticker (its share quantity is not null); the ReportDate walk emits no row
\* for days 1-4, and from day 5 on both ledgers hold the ticker, with the same quantity.
C5_DivergeThenConverge ==
    (SinglePurchaseDay1Day5 /\ Valued /\ ~Unpriced(1)) =>
        /\ "TransactionDate" \in DOMAIN holdings_df => ExecutionHoldsDays1To4
        /\ groupby_column = "ReportDate" =>
              \A d \in 1..4 : ~Held(holdings_list, d, trades[1].Ticker)
        /\ "ReportDate" \in DOMAIN holdings_df =>
              /\ DisclosureConverges
              /\ \A d \in Range(TradingCalendar(cutoff_date, NoEnd)) :
                    d >= 5 => Held(holdings_df["ReportDate"], d, trades[1].Ticker)

\* C5 witness: both walks of a priced single purchase (day 1, day 5) have returned
C5_Witness ==
    /\ SinglePurchaseDay1Day5 /\ Valued /\ ~Unpriced(1)
    /\ DOMAIN holdings_df = GroupbyColumns

----------------------------------------------------------------------------
(* C6: a date of zero total value *)

\* the merged rows of column c give date d a total value that is not greater than 0
DegenerateTotalValue(c, d) ==
    \E r \in Range(roi_holdings[c]) : r.Date = d /\ ~FGtZero(r.TotalValue)

\* C6: a date whose total portfolio value is zero, negative or undefined is excluded
\* from the weighted return: it contributes no computed daily return (in particular
\* not 0) to the chain, so its daily return is the no-change default 1.0 that a date
\* without ledger rows gets.
C6_DegenerateDateExcluded ==
    pc = "done" =>
        \A i \in DOMAIN final :
            /\ DegenerateTotalValue("TransactionDate", final[i].Date) => final[i].ROI = F(1)
            /\ DegenerateTotalValue("ReportDate", final[i].Date)
                  => final[i].CopyTradeROI = F(1)

----------------------------------------------------------------------------
(* C7: fresh restart after liquidation *)

\* the quantities of k applied on processed dates up to position j, summed
NetApplied(j, k) ==
    LET rows == SelectSeq(politician_trades,
                    LAMBDA r : r.Ticker = k
                               /\ \E m \in 1..j : KeyDate(r, groupby_column) = Processed[m])
    IN  SumSkipNa([i \in 1..Len(rows) |-> rows[i].StockAmount])

\* C7: a running quantity that is <= 0 is deleted (no ledger row carries one), and a
\* ticker that is absent from the ledger on the previous calendar date and present on
\* this one shows exactly the summed quantity of this date's transactions in it: what
\* an oversell left below zero is discarded.
C7_FreshRestart ==
    \A k \in Tickers : \A j \in DOMAIN Processed :
        Held(holdings_list, Processed[j], k) =>
            /\ ~FLeZero(QtyAt(holdings_list, Processed[j], k))
            /\ (j = 1 \/ ~Held(holdings_list, Processed[j - 1], k)) =>
                  /\ KeyedOn(Processed[j], k) # {}
                  /\ QtyAt(holdings_list, Processed[j], k) = SumOn(Processed[j], k)

\* C7 witness: the ledger shows a quantity q of a ticker although the quantities
\* applied to it so far sum to less than q (an oversell happened before the purchase)
C7_Witness ==
    \E k \in Tickers : \E j \in DOMAIN Processed :
        /\ Held(holdings_list, Processed[j], k)
        /\ j >= 2
        /\ ~Held(holdings_list, Processed[j - 1], k)
        /\ FLess(NetApplied(j, k), QtyAt(holdings_list, Processed[j], k))

----------------------------------------------------------------------------
(* C8: carry forward *)

\* the rows of the ledger for date d, in order
RowsOf(ledger, d) == SelectSeq(ledger, LAMBDA r : r.Date = d)

\* C8: the rows emitted for the date just processed are one row per ticker in the
\* accumulator; on a date with no transactions keyed on it the emitted (ticker,
\* quantity) pairs are those of the previous calendar date (none on the first); and a
\* ticker with a row on a date has the same row on the next date unless transactions
\* in it are keyed on that date.
C8_CarryForward ==
    /\ Len(Processed) >= 1 =>
          RowsOf(holdings_list, Processed[Len(Processed)])
             = Snapshot(cumulative_holdings, Processed[Len(Processed)])
    /\ \A j \in DOMAIN Processed :
          GroupIndexes(politician_trades, groupby_column, Processed[j]) = {}
          => RowsAt(holdings_list, Processed[j])
                = (IF j = 1 THEN {} ELSE RowsAt(holdings_list, Processed[j - 1]))
    /\ \A k \in Tickers : \A j \in DOMAIN Processed :
          (j >= 2 /\ Held(holdings_list, Processed[j - 1], k) /\ KeyedOn(Processed[j], k) = {})
          => /\ Held(holdings_list, Processed[j], k)
             /\ QtyAt(holdings_list, Processed[j], k)
                   = QtyAt(holdings_list, Processed[j - 1], k)

\* C8 witness: a date without transactions was processed while a ticker was held
C8_Witness ==
    \E j \in DOMAIN Processed :
        /\ j >= 2
        /\ GroupIndexes(politician_trades, groupby_column, Processed[j]) = {}
        /\ RowsAt(holdings_list, Processed[j]) # {}

----------------------------------------------------------------------------
(* C9: requests to the price provider *)

\* C9 as claimed: a complete reconstruction issues exactly one combined request and
\* exactly one request for the benchmark.
C9_OneBenchmarkRequestAsClaimed ==
    pc = "done" => combined_requests = 1 /\ benchmark_requests = 1

\* C9 amended: a complete reconstruction issues exactly one combined request for all
\* tickers and exactly three requests for the benchmark alone (one per holdings walk,
\* one in create_portfolio_roi), whatever the number of tickers.
C9_BoundedRequests ==
    pc = "done" => combined_requests = 1 /\ benchmark_requests = 3

\* C9 witness: a reconstruction of transactions in two tickers has completed
C9_Witness ==
    /\ pc = "done"
    /\ Cardinality({trades[i].Ticker : i \in DOMAIN trades}) = 2

----------------------------------------------------------------------------
(* C10: a transaction is applied on its key date only *)

\* the valued transactions whose key date is a calendar date
OnCalendar(tr, col, ds) == SelectSeq(tr, LAMBDA r : KeyDate(r, col) \in Range(ds))

\* C10: holdings applies a transaction exactly once, when it processes the calendar
\* date equal to the transaction's key date; a transaction whose key date is not in
\* the calendar is never applied, and the ledger is the ledger of the transactions
\* whose key date is in the calendar.
C10_AppliedOnKeyDateOnly ==
    Valued =>
        /\ \A i \in DOMAIN politician_trades :
              applied[groupby_column][i] =
                 (IF KeyDate(politician_trades[i], groupby_column) \in Range(Processed)
                  THEN 1 ELSE 0)
        /\ holdings_list =
              Holdings(OnCalendar(politician_trades, groupby_column,
                                  TradingCalendar(cutoff_date, NoEnd)),
                       groupby_column, Processed)
        /\ \A c \in DOMAIN holdings_df : \A i \in DOMAIN politician_trades :
              applied[c][i] =
                 (IF KeyDate(politician_trades[i], c)
                        \in Range(TradingCalendar(cutoff_date, NoEnd))
                  THEN 1 ELSE 0)

\* C10 witness: a whole walk has been made, a ticker is held at its end, and one
\* transaction in that ticker has a key date outside the calendar
C10_Witness ==
    /\ Valued
    /\ pc = "holdings_loop"
    /\ idx > Len(dates)
    /\ \E i \in DOMAIN politician_trades :
          /\ KeyDate(politician_trades[i], groupby_column) \notin Range(dates)
          /\ applied[groupby_column][i] = 0
          /\ DictHas(cumulative_holdings, politician_trades[i].Ticker)

====
